---- MODULE Spec2Model ----
(***************************************************************************)
(* Model of the competitor-intelligence pipeline of src/main.py and of its  *)
(* HTTP and command-line entry points: the shared AgentState, the agents   *)
(* run by the compiled LangGraph workflow, and the text extraction the     *)
(* agents apply to the inference service's replies.                        *)
(*                                                                         *)
(* Two specifications: Spec is a request served by the program, which     *)
(* ends in analysis_agent (NameError at main.py 220); SpecComparison is    *)
(* comparison_agent called alone on a state.                               *)
(*                                                                         *)
(* Texts are sequences of tokens.  A reply of the inference service is a   *)
(* sequence of JSON tokens ("[", "]", "{", "}", ",", keys "k:<name>",      *)
(* string literals "s:<text>", number literals "n:<digits>", "null") and   *)
(* prose words.  re.search and json.loads are computed on them.            *)
(***************************************************************************)
EXTENDS Integers, Sequences, FiniteSets, TLC

\* ------------------------------------------------------------ bounds
\* Most queries a planning reply lists.
MaxQueries == 4
\* Most results one search returns.
MaxResults == 1
\* Most competitors a ranking reply lists.
MaxRanked == 2

\* ------------------------------------------------- program constants
\* queries[:3]
SearchLimit == 3
\* result.get('content', '')[:200]
DescLimit == 200

Min(a, b) == IF a < b THEN a ELSE b

\* Python's s[:n] for n >= 0.
Take(s, n) == SubSeq(s, 1, Min(n, Len(s)))

\* ------------------------------------------------------ JSON values
\* A parsed JSON value: t is "str", "num", "null", "arr" or "obj"; s is the
\* literal of a scalar; items are an array's elements, or an object's
\* members as [k, v] records.
Scalar(t, s) == [t |-> t, s |-> s, items |-> <<>>]
Arr(items) == [t |-> "arr", s |-> "", items |-> items]
Obj(members) == [t |-> "obj", s |-> "", items |-> members]
Str(s) == Scalar("str", s)
Num(s) == Scalar("num", s)

StrToks == {"s:q1", "s:q2", "s:q3", "s:q4", "s:q5", "s:c1", "s:c2", "s:c3",
            "s:c4", "s:c5", "s:f1", "s:f2", "s:x"}
NumToks == {"n:8"}
KeyToks == {"k:name", "k:url", "k:description", "k:category",
            "k:relevanceScore", "k:marketPosition", "k:relevanceReason",
            "k:features"}

\* The member name of a key token.
KeyName(tok) ==
    CASE tok = "k:name" -> "name"
      [] tok = "k:url" -> "url"
      [] tok = "k:description" -> "description"
      [] tok = "k:category" -> "category"
      [] tok = "k:relevanceScore" -> "relevanceScore"
      [] tok = "k:marketPosition" -> "marketPosition"
      [] tok = "k:relevanceReason" -> "relevanceReason"
      [] tok = "k:features" -> "features"

ParseFail == [ok |-> FALSE, val |-> Scalar("null", ""), next |-> 0]
ParseOk(v, n) == [ok |-> TRUE, val |-> v, next |-> n]

RECURSIVE ParseValue(_, _)
RECURSIVE ParseElements(_, _, _)
RECURSIVE ParseMembers(_, _, _)

\* json.loads' value at position p of toks: the value and the position
\* after it.
ParseValue(toks, p) ==
    IF p > Len(toks) THEN ParseFail
    ELSE LET tok == toks[p] IN
         IF tok \in StrToks THEN ParseOk(Str(tok), p + 1)
         ELSE IF tok \in NumToks THEN ParseOk(Num(tok), p + 1)
         ELSE IF tok = "null" THEN ParseOk(Scalar("null", ""), p + 1)
         ELSE IF tok = "[" THEN
              IF p + 1 <= Len(toks) /\ toks[p + 1] = "]"
              THEN ParseOk(Arr(<<>>), p + 2)
              ELSE ParseElements(toks, p + 1, <<>>)
         ELSE IF tok = "{" THEN
              IF p + 1 <= Len(toks) /\ toks[p + 1] = "}"
              THEN ParseOk(Obj(<<>>), p + 2)
              ELSE ParseMembers(toks, p + 1, <<>>)
         ELSE ParseFail

\* The elements of an array from position p on, after those in acc.
ParseElements(toks, p, acc) ==
    LET r == ParseValue(toks, p) IN
    IF ~r.ok THEN ParseFail
    ELSE IF r.next > Len(toks) THEN ParseFail
    ELSE IF toks[r.next] = "]" THEN ParseOk(Arr(Append(acc, r.val)), r.next + 1)
    ELSE IF toks[r.next] = "," THEN ParseElements(toks, r.next + 1, Append(acc, r.val))
    ELSE ParseFail

\* The members of an object from position p on, after those in acc.
ParseMembers(toks, p, acc) ==
    IF p > Len(toks) \/ toks[p] \notin KeyToks THEN ParseFail
    ELSE LET r == ParseValue(toks, p + 1)
             m == [k |-> KeyName(toks[p]), v |-> r.val]
         IN
         IF ~r.ok THEN ParseFail
         ELSE IF r.next > Len(toks) THEN ParseFail
         ELSE IF toks[r.next] = "}" THEN ParseOk(Obj(Append(acc, m)), r.next + 1)
         ELSE IF toks[r.next] = "," THEN ParseMembers(toks, r.next + 1, Append(acc, m))
         ELSE ParseFail

\* json.loads(text): the one value the whole text spells, or a
\* JSONDecodeError (ok = FALSE).
JsonLoads(toks) ==
    LET r == ParseValue(toks, 1) IN
    IF r.ok /\ r.next = Len(toks) + 1 THEN r ELSE ParseFail

\* ---------------------------------------------------------- re.search
Positions(toks, tok) == {p \in 1..Len(toks) : toks[p] = tok}
SetMin(S) == CHOOSE x \in S : \A y \in S : x <= y
SetMax(S) == CHOOSE x \in S : \A y \in S : y <= x

\* re.search(open + '.*' + close, content, re.DOTALL): the text from the
\* first opener to the last closer after it; found = FALSE for None.
ReSearch(content, open, close) ==
    LET os == Positions(content, open) IN
    IF os = {} THEN [found |-> FALSE, group |-> <<>>]
    ELSE LET a == SetMin(os)
             cs == {p \in Positions(content, close) : p > a}
         IN IF cs = {} THEN [found |-> FALSE, group |-> <<>>]
            ELSE [found |-> TRUE, group |-> SubSeq(content, a, SetMax(cs))]

\* --------------------------------------------- Python on JSON values
\* dict.get(key, default): the member set last under key.
DictGet(d, key, default) ==
    LET ps == {p \in 1..Len(d.items) : d.items[p].k = key} IN
    IF ps = {} THEN default ELSE d.items[SetMax(ps)].v

\* Whether len(v) is defined (a list, a dict or a string); it raises a
\* TypeError for None and for a number.
HasLen(v) == v.t \in {"arr", "obj", "str"}

\* len(v) where it is defined; a string literal "s:<text>" has the
\* length of <text>.
PyLen(v) ==
    CASE v.t = "arr" -> Len(v.items)
      [] v.t = "obj" -> Cardinality({v.items[p].k : p \in 1..Len(v.items)})
      [] v.t = "str" -> Len(v.s) - 2
      [] OTHER -> 0

\* ------------------------------------------------------------- state
VARIABLES
    pc,                         \* the statement the run is at
    user_input, analysis_mode,  \* AgentState: input
    messages,                   \* AgentState: the messages channel
    search_queries, raw_competitors, competitors,
    competitive_analysis, market_gaps, competitor_weaknesses,
    feature_comparison, strategic_recommendations,
    agent_status,
    queries, all_competitors, i,   \* firecrawl_agent's locals
    content,                    \* response.content last searched for JSON
    error,                      \* the exception the run ended with
    llm_log,                    \* the replies llm.invoke has returned
    search_log,                 \* the calls tavily.search has received
    stage_lens,                 \* len(messages) as each stage returned
    entry,                      \* the entry point serving the request
    stub,                       \* the doubles standing for llm and tavily
    response,                   \* the HTTP response of /api/analyze
    invoked,                    \* the nodes the graph has called, in order
    writes                      \* the assignments to state fields, in order

vars == <<pc, user_input, analysis_mode, messages, search_queries,
          raw_competitors, competitors, competitive_analysis, market_gaps,
          competitor_weaknesses, feature_comparison,
          strategic_recommendations, agent_status, queries,
          all_competitors, i, content, error, llm_log, search_log,
          stage_lens, entry, stub, response, invoked, writes>>

state_fields == <<user_input, analysis_mode, messages, search_queries,
                  raw_competitors, competitors, competitive_analysis,
                  market_gaps, competitor_weaknesses, feature_comparison,
                  strategic_recommendations, agent_status>>

Stages == {"firecrawl", "analysis", "comparison"}

\* The user_input and mode of a request: a description, and the empty
\* string sent in url mode.
Inputs == { <<"s:biz", "description">>, <<"s:", "url">> }

\* A request without user_input (mode defaults to "description").
Absent == <<"None", "description">>

\* The doubles standing for llm and tavily: "arbitrary" ones reply with any
\* text, raise or fail; "scenario" ones reply with valid payloads only.
Stubs == {"arbitrary", "scenario"}

\* --------------------------------------------- the inference service
\* A JSON array of the given element texts.
RECURSIVE Joined(_)
Joined(elems) ==
    IF elems = <<>> THEN <<>>
    ELSE IF Len(elems) = 1 THEN elems[1]
    ELSE elems[1] \o <<",">> \o Joined(Tail(elems))

ArrayText(elems) == <<"[">> \o Joined(elems) \o <<"]">>

QueryTok(n) ==
    CASE n = 1 -> "s:q1" [] n = 2 -> "s:q2" [] n = 3 -> "s:q3"
      [] n = 4 -> "s:q4" [] OTHER -> "s:q5"

NameTok(n) ==
    CASE n = 1 -> "s:c1" [] n = 2 -> "s:c2" [] n = 3 -> "s:c3"
      [] n = 4 -> "s:c4" [] OTHER -> "s:c5"

\* The text of a competitor record with all seven members.
CompetitorText(n) ==
    <<"{", "k:name", NameTok(n), ",", "k:url", "s:x", ",",
      "k:description", "s:x", ",", "k:category", "s:x", ",",
      "k:relevanceScore", "n:8", ",", "k:marketPosition", "s:x", ",",
      "k:relevanceReason", "s:x", "}">>

\* Replies to the planning prompt: prose alone, an array never closed, an
\* array of bare words, an array in a code fence, and arrays of 0 to
\* MaxQueries string literals.
PlanReplies ==
    { <<"prose">>, <<"[", "s:q1">>, <<"[", "prose", "]">>,
      <<"prose">> \o ArrayText(<< <<"s:q1">>, <<"s:q2">> >>) \o <<"prose">> }
    \cup { ArrayText([k \in 1..n |-> <<QueryTok(k)>>]) : n \in 0..MaxQueries }

\* Replies to the ranking prompt: prose alone, "[ {invalid json", an array
\* of bare words, arrays of 0 to MaxRanked competitor records, a record
\* lacking members, and an array of a string.
RankReplies ==
    { <<"prose">>, <<"[", "{", "prose">>, <<"[", "{", "prose", "}", "]">>,
      ArrayText(<< <<"{", "k:name", "s:c1", "}">> >>),
      ArrayText(<< <<"s:c1">> >>) }
    \cup { ArrayText([k \in 1..n |-> CompetitorText(k)]) : n \in 0..MaxRanked }

\* Replies to the feature-matrix prompt.
MatrixReplies ==
    { <<"prose">>, <<"{", "prose", "}">>, <<"{", "}">>,
      <<"{", "k:features", "[", "]", "}">>,
      <<"prose", "{", "k:features", "[", "{", "k:name", "s:f1", "}", ",",
        "{", "k:name", "s:f2", "}", "]", "}">>,
      <<"{", "k:features", "n:8", "}">>,
      <<"{", "k:features", "null", "}">> }

\* Replies to the recommendation prompt.
RecommendReplies == { <<"w21">> }

\* A text inside a Markdown code fence.
Fenced(text) == <<"prose">> \o text \o <<"prose">>

\* The scenario's planning replies: an array of four queries.
ScenarioPlanReplies ==
    LET a == ArrayText([k \in 1..4 |-> <<QueryTok(k)>>]) IN {a, Fenced(a)}

\* The scenario's ranking replies: an array of five competitor records.
ScenarioRankReplies ==
    LET a == ArrayText([k \in 1..5 |-> CompetitorText(k)]) IN {a, Fenced(a)}

\* The text of a feature matrix of n features.
MatrixText(n) ==
    <<"{", "k:features">>
    \o ArrayText([k \in 1..n |->
            <<"{", "k:name", IF k = 1 THEN "s:f1" ELSE "s:f2", "}">>])
    \o <<"}">>

\* The scenario's feature-matrix replies: a matrix of one or two features.
ScenarioMatrixReplies ==
    { MatrixText(1), MatrixText(2), Fenced(MatrixText(1)), Fenced(MatrixText(2)) }

\* The scenario's recommendation replies: a non-empty text.
ScenarioRecommendReplies == { <<"w21">>, <<"w10">> }

\* What llm.invoke may reply at each of its calls. analysis_agent never
\* reaches its call (main.py 246), so no reply to it is modelled.
RepliesTo(call, doubles) ==
    CASE call = "plan" ->
           IF doubles = "scenario" THEN ScenarioPlanReplies ELSE PlanReplies
      [] call = "rank" ->
           IF doubles = "scenario" THEN ScenarioRankReplies ELSE RankReplies
      [] call = "matrix" ->
           IF doubles = "scenario" THEN ScenarioMatrixReplies ELSE MatrixReplies
      [] call = "recommend" ->
           IF doubles = "scenario" THEN ScenarioRecommendReplies ELSE RecommendReplies

\* What tavily.search may do: raise, or return n results; the scenario's
\* double returns 3 results for every query.
SearchOutcomes(doubles) ==
    IF doubles = "scenario"
    THEN { [raises |-> FALSE, n |-> 3] }
    ELSE { [raises |-> TRUE, n |-> 0] }
         \cup { [raises |-> FALSE, n |-> n] : n \in 0..MaxResults }

\* ------------------------------------------------- the search service
\* The j-th result of the call for the q-th query: a dict with a title,
\* a url and a content of 250 or 150 characters.
SearchResult(q, j) ==
    [title |-> <<"title", q, j>>, url |-> <<"url", q, j>>,
     content |-> [text |-> <<"content", q, j>>,
                  len |-> IF j % 2 = 1 THEN 250 ELSE 150]]

\* main.py 127-132
RawCompetitor(result) ==
    [name |-> result.title, url |-> result.url,
     description |-> [text |-> result.content.text,
                      len |-> Min(result.content.len, DescLimit)],
     source |-> "web_search"]

\* ------------------------------------------------------ the workflow
\* operator.add, the reducer of the messages channel (main.py 41).
Reducer(old, new) == old \o new

\* A channel that keeps only the last message of the returned list.
ChannelUpdateOverwriting(msgs) == <<msgs[Len(msgs)]>>

\* The graph applies the state a node returns: the node has appended to
\* the channel's own list and returns that list, which the reducer adds
\* to the channel.
ChannelUpdate(msgs) == Reducer(msgs, msgs)

\* main.py 175-185
PlaceholderCompetitors ==
    << Obj(<< [k |-> "name", v |-> Str("s:Competitor A")],
              [k |-> "url", v |-> Str("s:competitor-a.com")],
              [k |-> "description", v |-> Str("s:Leading market player")],
              [k |-> "category", v |-> Str("s:SaaS")],
              [k |-> "relevanceScore", v |-> Num("n:8")],
              [k |-> "marketPosition", v |-> Str("s:leader")],
              [k |-> "relevanceReason", v |-> Str("s:Direct competitor")] >>) >>

\* main.py 332-342
PlaceholderComparison ==
    Obj(<< [k |-> "features",
            v |-> Arr(<< Obj(<< [k |-> "name", v |-> Str("s:AI Features")],
                                [k |-> "yourOpportunity", v |-> Str("s:Build")],
                                [k |-> "competitors",
                                 v |-> Obj(<< [k |-> "Competitor A", v |-> Str("s:Partial")] >>)],
                                [k |-> "strategicValue", v |-> Str("s:Differentiation")],
                                [k |-> "implementationComplexity", v |-> Str("s:Medium")] >>) >>)] >>)

\* main.py 105
FallbackQueries == <<Str("s:competitors"), Str("s:alternatives"), Str("s:similar products")>>

\* No response sent yet.
NoResponse == [status |-> 0, detail |-> "", body |-> <<>>]

\* A request has reached an entry point; the fields of the state are those
\* run_competitor_analysis starts from (main.py 437-454).
Init ==
    /\ entry \in {"http", "cli"}
    /\ stub \in Stubs
    /\ \E in \in Inputs \cup {Absent} : user_input = in[1] /\ analysis_mode = in[2]
    /\ stub = "scenario" => entry = "http" /\ user_input = "s:biz"
    /\ pc = "request"
    /\ response = NoResponse
    /\ invoked = <<>>
    /\ writes = <<>>
    /\ messages = <<>>
    /\ search_queries = <<>>
    /\ raw_competitors = <<>>
    /\ competitors = <<>>
    /\ competitive_analysis = <<>>
    /\ market_gaps = <<>>
    /\ competitor_weaknesses = <<>>
    /\ feature_comparison = Obj(<<>>)
    /\ strategic_recommendations = <<>>
    /\ agent_status = [s \in Stages |-> "pending"]
    /\ queries = <<>>
    /\ all_competitors = <<>>
    /\ i = 0
    /\ content = <<>>
    /\ error = "none"
    /\ llm_log = <<>>
    /\ search_log = <<>>
    /\ stage_lens = <<>>

\* The log of assignments after state[field] = ... in the stage's agent.
\* A stage assigns a field of the state it was given (main.py 112, 138,
\* 189, 346, 381; the assignments of analysis_agent are never reached).
Assigned(log, stage, field) == Append(log, [stage |-> stage, field |-> field])

\* main.py 406: workflow.set_entry_point("firecrawl")
EntryPoint == "firecrawl"

\* The edges with the discovery node leading back to itself.
NextNodeRepeating(node) ==
    CASE node = "firecrawl" -> "firecrawl"
      [] node = "analysis" -> "comparison"
      [] node = "comparison" -> "END"

\* main.py 407-409: the edges of the workflow.
NextNode(node) ==
    CASE node = "firecrawl" -> "analysis"
      [] node = "analysis" -> "comparison"
      [] node = "comparison" -> "END"

\* Where the run is when the graph moves to a node: at the node's agent,
\* or, at END, back in run_competitor_analysis with the final state.
NodePc(node) == IF node = "END" THEN "returned" ELSE node

\* state["agent_status"][stage] = "working" (main.py 74, 211, 288)
MarkWorking(status, stage) == [status EXCEPT ![stage] = "working"]

\* state["agent_status"][stage] = "complete" (main.py 191, 267, 383)
MarkComplete(status, stage) == [status EXCEPT ![stage] = "complete"]

\* A stage that catches the exception and lets the run return.
RaiseCaught(exc) == pc' = "returned" /\ error' = exc

\* An exception leaves the node, app.invoke and run_competitor_analysis.
Raise(exc) == pc' = "raised" /\ error' = exc

pipeline_vars == <<state_fields, queries, all_competitors, i, content, error,
                   llm_log, search_log, stage_lens, invoked, writes>>

\* api.py 35-37 and 169-187: a body without user_input is refused with 422
\* before the handler runs; any string, the empty one too, is passed to
\* run_competitor_analysis.
HttpAnalyze ==
    /\ pc = "request"
    /\ entry = "http"
    /\ IF user_input = Absent[1]
       THEN /\ pc' = "rejected"
            /\ response' = [status |-> 422, detail |-> "Field required", body |-> <<>>]
       ELSE /\ pc' = EntryPoint
            /\ UNCHANGED response
    /\ UNCHANGED <<pipeline_vars, entry, stub>>

\* cli.py 11: from main import run_competitor_intelligence, display_results
\* names nothing main.py defines, so the import raises before main() runs.
CliImport ==
    /\ pc = "request"
    /\ entry = "cli"
    /\ pc' = "import_failed"
    /\ UNCHANGED <<pipeline_vars, entry, stub, response>>

StringMembers == {"name", "url", "description", "category", "marketPosition",
                  "relevanceReason"}

\* api.py 40-47 and 191: CompetitorInfo(**comp) needs a dict with every
\* member, the score an integer and the others strings.
ValidCompetitor(comp) ==
    /\ comp.t = "obj"
    /\ \A m \in StringMembers : DictGet(comp, m, Scalar("null", "")).t = "str"
    /\ DictGet(comp, "relevanceScore", Scalar("null", "")).t = "num"

\* api.py 191: the list comprehension stops at the first element
\* CompetitorInfo(**comp) rejects; 0 when it rejects none.
FirstRejected(comps) ==
    LET bad == { k \in 1..Len(comps) : ~ValidCompetitor(comps[k]) } IN
    IF bad = {} THEN 0 ELSE SetMin(bad)

\* api.py 40-47: the members CompetitorInfo declares, in declared order.
DeclaredMembers == <<"name", "url", "description", "category",
                     "relevanceScore", "marketPosition", "relevanceReason">>

\* api.py 191: CompetitorInfo(**comp) of an accepted dict: an object of the
\* declared members alone, in declared order; any other member of comp is
\* dropped.
CompetitorInfo(comp) ==
    Obj([m \in 1..Len(DeclaredMembers) |->
           [k |-> DeclaredMembers[m],
            v |-> DictGet(comp, DeclaredMembers[m], Scalar("null", ""))]])

\* api.py 189-207: the response to a run that returned or raised. A
\* rejected element that is no dict raises TypeError, a dict lacking a
\* member ValidationError; the body carries the rebuilt competitors.
HttpResponse ==
    IF pc = "raised"
    THEN [status |-> 500, detail |-> error, body |-> <<>>]
    ELSE IF FirstRejected(competitors) # 0
    THEN [status |-> 500,
          detail |-> IF competitors[FirstRejected(competitors)].t # "obj"
                     THEN "TypeError" ELSE "ValidationError",
          body |-> <<>>]
    ELSE [status |-> 200, detail |-> "",
          body |-> << [competitors |->
                         [k \in 1..Len(competitors) |->
                            CompetitorInfo(competitors[k])],
                       competitive_analysis |-> competitive_analysis,
                       market_gaps |-> market_gaps,
                       competitor_weaknesses |-> competitor_weaknesses,
                       feature_comparison |-> feature_comparison,
                       strategic_recommendations |-> strategic_recommendations,
                       agent_messages |-> messages,
                       agent_status |-> agent_status] >>]

\* api.py 180-207: the handler's part of a step of the pipeline. When the
\* step ends the run, by a return or by an exception, the handler builds
\* its response from the outcome; until then there is none.
Answer ==
    response' = IF pc' \in {"returned", "raised"} /\ entry = "http"
                THEN HttpResponse'
                ELSE response

\* llm.invoke raises at one of the calls a run reaches (main.py 93, 164,
\* 321, 378): no agent catches it.
LlmFails ==
    /\ pc \in {"plan", "rank", "matrix", "recommend"}
    /\ stub = "arbitrary"
    /\ Raise("InferenceCallFailure")
    /\ UNCHANGED <<entry, stub, invoked, writes>>
    /\ UNCHANGED <<state_fields, queries, all_competitors, i, content,
                   llm_log, search_log, stage_lens>>
    /\ Answer

\* main.py 65-75
FirecrawlStart ==
    /\ pc = "firecrawl"
    /\ invoked' = Append(invoked, "firecrawl")
    /\ agent_status' = MarkWorking(agent_status, "firecrawl")
    /\ messages' = Append(messages, "[Firecrawl Agent] Starting competitor discovery")
    /\ pc' = "plan"
    /\ UNCHANGED <<entry, stub, writes>>
    /\ UNCHANGED <<user_input, analysis_mode, search_queries, raw_competitors,
                   competitors, competitive_analysis, market_gaps,
                   competitor_weaknesses, feature_comparison,
                   strategic_recommendations, queries, all_competitors, i,
                   content, error, llm_log, search_log, stage_lens>>
    /\ Answer

\* main.py 101-105: the planned queries, or a JSONDecodeError.
PlannedQueries(reply) ==
    LET json_match == ReSearch(reply, "[", "]") IN
    IF json_match.found
    THEN LET r == JsonLoads(json_match.group) IN
         [ok |-> r.ok, queries |-> r.val.items]
    ELSE [ok |-> TRUE, queries |-> FallbackQueries]

\* main.py 93-108
Plan ==
    /\ pc = "plan"
    /\ \E reply \in RepliesTo("plan", stub) :
         LET p == PlannedQueries(reply) IN
         /\ llm_log' = Append(llm_log, reply)
         /\ content' = reply
         /\ IF p.ok
            THEN /\ queries' = p.queries
                 /\ search_queries' = p.queries
                 /\ writes' = Assigned(writes, "firecrawl", "search_queries")
                 /\ messages' = Append(messages,
                        "[Firecrawl Agent] Planned " \o ToString(Len(p.queries))
                        \o " search strategies")
                 /\ all_competitors' = <<>>
                 /\ i' = 0
                 /\ pc' = "search"
                 /\ UNCHANGED error
            ELSE /\ Raise("JSONDecodeError")
                 /\ UNCHANGED <<queries, search_queries, messages,
                                all_competitors, i, writes>>
    /\ UNCHANGED <<entry, stub, invoked>>
    /\ UNCHANGED <<user_input, analysis_mode, raw_competitors, competitors,
                   competitive_analysis, market_gaps, competitor_weaknesses,
                   feature_comparison, strategic_recommendations,
                   agent_status, search_log, stage_lens>>
    /\ Answer

\* The loop over every planned query.
SearchedQueriesUnlimited(qs) == qs

\* main.py 115: queries[:3]
SearchedQueries(qs) == Take(qs, SearchLimit)

\* The raw competitors of the n results of the call for the q-th query.
RawResults(q, n) == [j \in 1..n |-> RawCompetitor(SearchResult(q, j))]

\* The loop body without its try: the search's exception leaves the loop.
SearchTurnUncaught(acc, q, raises, n) ==
    [all_competitors |-> IF raises THEN acc ELSE acc \o RawResults(q, n),
     propagates |-> raises]

\* The loop body putting a search's results in front of the earlier ones.
SearchTurnPrepending(acc, q, raises, n) ==
    [all_competitors |-> IF raises THEN acc ELSE RawResults(q, n) \o acc,
     propagates |-> FALSE]

\* main.py 118-136, the body of the loop for the q-th query: the search
\* returns n results, which are collected, or raises, which is printed
\* and skipped (except Exception: continue).
SearchTurn(acc, q, raises, n) ==
    [all_competitors |-> IF raises THEN acc ELSE acc \o RawResults(q, n),
     propagates |-> FALSE]

\* main.py 115-136: one turn of the loop.
Search ==
    /\ pc = "search"
    /\ i < Len(SearchedQueries(queries))
    /\ \E o \in SearchOutcomes(stub) :
         LET turn == SearchTurn(all_competitors, i + 1, o.raises, o.n) IN
         /\ search_log' = Append(search_log,
                [query |-> <<queries[i + 1], user_input>>, raised |-> o.raises,
                 results |-> o.n])
         /\ all_competitors' = turn.all_competitors
         /\ IF turn.propagates
            THEN Raise("SearchCallFailure") /\ UNCHANGED i
            ELSE i' = i + 1 /\ UNCHANGED <<pc, error>>
    /\ UNCHANGED <<entry, stub, invoked, writes>>
    /\ UNCHANGED <<state_fields, queries, content, llm_log, stage_lens>>
    /\ Answer

\* main.py 138-139
SearchDone ==
    /\ pc = "search"
    /\ i >= Len(SearchedQueries(queries))
    /\ raw_competitors' = all_competitors
    /\ writes' = Assigned(writes, "firecrawl", "raw_competitors")
    /\ messages' = Append(messages,
           "[Firecrawl Agent] Found " \o ToString(Len(all_competitors))
           \o " potential competitors")
    /\ pc' = "rank"
    /\ UNCHANGED <<entry, stub, invoked>>
    /\ UNCHANGED <<user_input, analysis_mode, search_queries, competitors,
                   competitive_analysis, market_gaps, competitor_weaknesses,
                   feature_comparison, strategic_recommendations,
                   agent_status, queries, all_competitors, i, content, error,
                   llm_log, search_log, stage_lens>>
    /\ Answer

\* The ranking extraction with an empty list in the except branch.
RankedCompetitorsEmptyOnError(reply) ==
    LET json_match == ReSearch(reply, "[", "]") IN
    IF json_match.found
    THEN LET r == JsonLoads(json_match.group) IN
         IF r.ok THEN r.val.items ELSE <<>>
    ELSE <<>>

\* The ranking extraction with the placeholder in the else branch too.
RankedCompetitorsPlaceholderOnNone(reply) ==
    LET json_match == ReSearch(reply, "[", "]") IN
    IF json_match.found
    THEN LET r == JsonLoads(json_match.group) IN
         IF r.ok THEN r.val.items ELSE PlaceholderCompetitors
    ELSE PlaceholderCompetitors

\* main.py 167-187
RankedCompetitors(reply) ==
    LET json_match == ReSearch(reply, "[", "]") IN
    IF json_match.found
    THEN LET r == JsonLoads(json_match.group) IN
         IF r.ok THEN r.val.items ELSE PlaceholderCompetitors
    ELSE <<>>

\* main.py 164-195, and the graph's update of the channels
Rank ==
    /\ pc = "rank"
    /\ \E reply \in RepliesTo("rank", stub) :
         LET cs == RankedCompetitors(reply)
             msgs == Append(messages,
                        "[Firecrawl Agent] Selected top " \o ToString(Len(cs))
                        \o " competitors")
         IN
         /\ llm_log' = Append(llm_log, reply)
         /\ content' = reply
         /\ competitors' = cs
         /\ writes' = Assigned(writes, "firecrawl", "competitors")
         /\ messages' = ChannelUpdate(msgs)
         /\ stage_lens' = Append(stage_lens, Len(ChannelUpdate(msgs)))
    /\ agent_status' = MarkComplete(agent_status, "firecrawl")
    /\ pc' = NodePc(NextNode("firecrawl"))
    /\ UNCHANGED <<entry, stub, invoked>>
    /\ UNCHANGED <<user_input, analysis_mode, search_queries, raw_competitors,
                   competitive_analysis, market_gaps, competitor_weaknesses,
                   feature_comparison, strategic_recommendations, queries,
                   all_competitors, i, error, search_log>>
    /\ Answer

\* main.py 202-212
AnalysisStart ==
    /\ pc = "analysis"
    /\ invoked' = Append(invoked, "analysis")
    /\ agent_status' = MarkWorking(agent_status, "analysis")
    /\ messages' = Append(messages, "[Analysis Agent] Starting competitive analysis")
    /\ pc' = "analyze"
    /\ UNCHANGED <<entry, stub, writes>>
    /\ UNCHANGED <<user_input, analysis_mode, search_queries, raw_competitors,
                   competitors, competitive_analysis, market_gaps,
                   competitor_weaknesses, feature_comparison,
                   strategic_recommendations, queries, all_competitors, i,
                   content, error, llm_log, search_log, stage_lens>>
    /\ Answer

\* main.py 215-242: the prompt's f-string evaluates json.dumps, and json
\* is imported only inside firecrawl_agent (main.py 96) and
\* comparison_agent (main.py 294): NameError, on every input, before
\* llm.invoke (main.py 246) is reached. Nothing after it is ever executed.
AnalysisPrompt ==
    /\ pc = "analyze"
    /\ Raise("NameError")
    /\ UNCHANGED <<entry, stub, invoked, writes>>
    /\ UNCHANGED <<state_fields, queries, all_competitors, i, content,
                   llm_log, search_log, stage_lens>>
    /\ Answer

\* main.py 278-289
ComparisonStart ==
    /\ pc = "comparison"
    /\ invoked' = Append(invoked, "comparison")
    /\ agent_status' = MarkWorking(agent_status, "comparison")
    /\ messages' = Append(messages, "[Comparison Agent] Creating feature comparison")
    /\ pc' = "matrix"
    /\ UNCHANGED <<entry, stub, writes>>
    /\ UNCHANGED <<user_input, analysis_mode, search_queries, raw_competitors,
                   competitors, competitive_analysis, market_gaps,
                   competitor_weaknesses, feature_comparison,
                   strategic_recommendations, queries, all_competitors, i,
                   content, error, llm_log, search_log, stage_lens>>
    /\ Answer

\* The matrix extraction with an empty matrix in the except branch.
ParsedComparisonEmptyOnError(reply) ==
    LET json_match == ReSearch(reply, "{", "}") IN
    IF json_match.found
    THEN LET r == JsonLoads(json_match.group) IN
         IF r.ok THEN r.val ELSE Obj(<< [k |-> "features", v |-> Arr(<<>>)] >>)
    ELSE Obj(<< [k |-> "features", v |-> Arr(<<>>)] >>)

\* The matrix extraction with the placeholder in the no-match branch too.
ParsedComparisonPlaceholderOnNone(reply) ==
    LET json_match == ReSearch(reply, "{", "}") IN
    IF json_match.found
    THEN LET r == JsonLoads(json_match.group) IN
         IF r.ok THEN r.val ELSE PlaceholderComparison
    ELSE PlaceholderComparison

\* main.py 326-344
ParsedComparison(reply) ==
    LET json_match == ReSearch(reply, "{", "}") IN
    IF json_match.found
    THEN LET r == JsonLoads(json_match.group) IN
         IF r.ok THEN r.val ELSE PlaceholderComparison
    ELSE Obj(<< [k |-> "features", v |-> Arr(<<>>)] >>)

\* comparison.get('features', [])
Features(comparison) == DictGet(comparison, "features", Arr(<<>>))

\* main.py 321-347: len() of a features member that is a number or None
\* raises a TypeError after feature_comparison is set.
Matrix ==
    /\ pc = "matrix"
    /\ \E reply \in RepliesTo("matrix", stub) :
         LET comparison == ParsedComparison(reply) IN
         /\ llm_log' = Append(llm_log, reply)
         /\ content' = reply
         /\ feature_comparison' = comparison
         /\ writes' = Assigned(writes, "comparison", "feature_comparison")
         /\ IF HasLen(Features(comparison))
            THEN /\ messages' = Append(messages,
                        "[Comparison Agent] Created comparison with "
                        \o ToString(PyLen(Features(comparison))) \o " features")
                 /\ pc' = "recommend"
                 /\ UNCHANGED error
            ELSE /\ Raise("TypeError")
                 /\ UNCHANGED messages
    /\ UNCHANGED <<entry, stub, invoked>>
    /\ UNCHANGED <<user_input, analysis_mode, search_queries, raw_competitors,
                   competitors, competitive_analysis, market_gaps,
                   competitor_weaknesses, strategic_recommendations,
                   agent_status, queries, all_competitors, i, search_log,
                   stage_lens>>
    /\ Answer

\* main.py 378-387: the recommendation call and the agent's return.
Recommend ==
    /\ pc = "recommend"
    /\ \E reply \in RepliesTo("recommend", stub) :
         /\ llm_log' = Append(llm_log, reply)
         /\ strategic_recommendations' = reply
         /\ writes' = Assigned(writes, "comparison", "strategic_recommendations")
    /\ messages' = Append(messages,
           "[Comparison Agent] Generated strategic recommendations")
    /\ agent_status' = MarkComplete(agent_status, "comparison")
    /\ pc' = "agent_returned"
    /\ UNCHANGED <<entry, stub, invoked>>
    /\ UNCHANGED <<user_input, analysis_mode, search_queries, raw_competitors,
                   competitors, competitive_analysis, market_gaps,
                   competitor_weaknesses, feature_comparison, queries,
                   all_competitors, i, content, error, search_log, stage_lens>>
    /\ Answer

\* ------------------------------------------------------ the program
\* A request served by run_competitor_analysis: the graph runs
\* firecrawl_agent and then analysis_agent, which raises.
Next ==
    \/ HttpAnalyze
    \/ CliImport
    \/ FirecrawlStart
    \/ Plan
    \/ Search
    \/ SearchDone
    \/ Rank
    \/ AnalysisStart
    \/ AnalysisPrompt
    \/ LlmFails

Spec == Init /\ [][Next]_vars

\* ------------------------------------------- comparison_agent alone
\* The competitor lists handed to comparison_agent.
GivenCompetitors == { <<>>, PlaceholderCompetitors }

\* The status maps handed to comparison_agent: a fresh one, and that of a
\* state whose earlier stages are complete.
GivenStatus ==
    { [s \in Stages |-> "pending"],
      [s \in Stages |-> IF s = "comparison" THEN "pending" ELSE "complete"] }

\* comparison_agent(state) called on a state of the AgentState shape
\* (main.py 278): no graph, no reducer, no HTTP layer.
InitComparison ==
    /\ entry = "agent"
    /\ stub \in Stubs
    /\ \E in \in Inputs : user_input = in[1] /\ analysis_mode = in[2]
    /\ pc = "comparison"
    /\ response = NoResponse
    /\ invoked = <<>>
    /\ writes = <<>>
    /\ messages = <<>>
    /\ search_queries = <<>>
    /\ raw_competitors = <<>>
    /\ competitors \in GivenCompetitors
    /\ competitive_analysis = <<>>
    /\ market_gaps = <<>>
    /\ competitor_weaknesses = <<>>
    /\ feature_comparison = Obj(<<>>)
    /\ strategic_recommendations = <<>>
    /\ agent_status \in GivenStatus
    /\ queries = <<>>
    /\ all_competitors = <<>>
    /\ i = 0
    /\ content = <<>>
    /\ error = "none"
    /\ llm_log = <<>>
    /\ search_log = <<>>
    /\ stage_lens = <<>>

NextComparison ==
    \/ ComparisonStart
    \/ Matrix
    \/ Recommend
    \/ LlmFails

SpecComparison == InitComparison /\ [][NextComparison]_vars

\* ============================================================ claims
\* The replies of the inference calls a request reaches, in call order.
PlanReply == llm_log[1]
RankReply == llm_log[2]
Planned == Len(llm_log) >= 1 /\ ~(pc = "raised" /\ error = "JSONDecodeError")
Ranked == Len(llm_log) >= 2

\* The replies of the two calls of comparison_agent called alone.
MatrixReply == llm_log[1]
MatrixAsked == entry = "agent" /\ Len(llm_log) >= 1

\* The reply holds a bracketed substring.
Bracketed(reply, open, close) == ReSearch(reply, open, close).found
\* The reply holds a bracketed substring that json.loads rejects.
Unparseable(reply, open, close) ==
    /\ Bracketed(reply, open, close)
    /\ ~JsonLoads(ReSearch(reply, open, close).group).ok

SomeSearchRaised == \E k \in 1..Len(search_log) : search_log[k].raised
AllComplete == \A s \in Stages : agent_status[s] = "complete"

\* run_competitor_analysis has ended, by a return or by an exception.
PipelineOver == pc \in {"returned", "raised"}
\* The Discovery node has returned its state to the graph.
DiscoveryReturned == Len(stage_lens) >= 1
\* The stage an exception left: the last one invoked.
FailedStage == invoked[Len(invoked)]
\* The Analysis stage has been run and is over.
AnalysisOver == pc = "raised" /\ invoked # <<>> /\ FailedStage = "analysis"

\* C1: a run ends by returning a state whose agent_status has all three
\* stages "complete" and whose messages is non-empty; stated for the runs
\* whose Discovery stage returned.
C1_ReturnedComplete ==
    (PipelineOver /\ DiscoveryReturned) =>
      /\ pc = "returned"
      /\ AllComplete
      /\ Len(messages) > 0

\* C2: Discovery issues at most 3 search calls, however many queries the
\* planning step produced.
C2_AtMostThreeSearches == Len(search_log) <= SearchLimit

C2_Witness ==
    pc = "rank" /\ Len(search_queries) > SearchLimit
    /\ Len(search_log) = SearchLimit

\* C3: when every inference call returns some text, whatever the searches
\* do, the run raises nothing: no extraction failure reaches the caller.
C3_NoFailureSurfaced == error \in {"none", "InferenceCallFailure"}

\* C4: when the planning reply holds no bracketed array, or one that does
\* not parse, search_queries is the fixed three-query list and Discovery
\* goes on to search.
C4_PlanningFallback ==
    (Len(llm_log) >= 1
     /\ (~Bracketed(PlanReply, "[", "]") \/ Unparseable(PlanReply, "[", "]")))
    => /\ search_queries = FallbackQueries
       /\ error # "JSONDecodeError"

\* The raw competitors of the searches that returned, in call order.
RECURSIVE SuccessfulResults(_, _)
SuccessfulResults(log, k) ==
    IF k > Len(log) THEN <<>>
    ELSE (IF log[k].raised THEN <<>> ELSE RawResults(k, log[k].results))
         \o SuccessfulResults(log, k + 1)

\* C5: a search call that raises aborts neither the stage nor the run: the
\* loop goes on to the remaining queries of the first 3, raw_competitors
\* holds the results of the searches that returned, the ranking reply is
\* still asked for and written to competitors, and the stage ends
\* "complete".
C5_SearchErrorSkipped ==
    SomeSearchRaised =>
      /\ error # "SearchCallFailure"
      /\ pc = "search" => i = Len(search_log)
      /\ pc # "search" =>
           /\ Len(search_log) = Min(SearchLimit, Len(search_queries))
           /\ raw_competitors = SuccessfulResults(search_log, 1)
      /\ Ranked =>
           /\ competitors = RankedCompetitors(RankReply)
           /\ agent_status["firecrawl"] = "complete"

C5_Witness ==
    /\ DiscoveryReturned
    /\ agent_status["firecrawl"] = "complete"
    /\ Len(search_log) = SearchLimit
    /\ search_log[1].raised /\ ~search_log[2].raised /\ search_log[3].raised
    /\ raw_competitors # <<>>
    /\ competitors # <<>>

\* The progress messages the agents append.
PhaseMessages ==
    { "[Firecrawl Agent] Starting competitor discovery",
      "[Analysis Agent] Starting competitive analysis" }
    \cup { "[Firecrawl Agent] Planned " \o ToString(n) \o " search strategies" :
             n \in 0..(MaxQueries + 1) }
    \cup { "[Firecrawl Agent] Found " \o ToString(n) \o " potential competitors" :
             n \in 0..(SearchLimit * (MaxResults + 1)) }
    \cup { "[Firecrawl Agent] Selected top " \o ToString(n) \o " competitors" :
             n \in 0..(MaxRanked + 1) }

\* C6: once a search call has raised and the search loop is over, messages
\* holds an entry documenting the skipped search, that is, an entry other
\* than the phases' progress messages.
C6_SkippedSearchLogged ==
    (SomeSearchRaised /\ pc # "search") =>
      \E m \in 1..Len(messages) : messages[m] \notin PhaseMessages

\* C7: when the ranking reply holds a "[...]" substring that does not
\* parse, competitors is exactly the one placeholder record named
\* "Competitor A" and Discovery ends "complete".
C7_RankingPlaceholder ==
    (Ranked /\ Unparseable(RankReply, "[", "]")) =>
      /\ competitors = PlaceholderCompetitors
      /\ Len(competitors) = 1
      /\ DictGet(competitors[1], "name", Str("")) = Str("s:Competitor A")
      /\ agent_status["firecrawl"] = "complete"

C7_Witness ==
    /\ DiscoveryReturned
    /\ Unparseable(RankReply, "[", "]")
    /\ competitors = PlaceholderCompetitors
    /\ agent_status["firecrawl"] = "complete"

\* C8: when the ranking reply holds no "[...]" substring, competitors is
\* the empty list, not the placeholder, and Discovery ends "complete".
C8_RankingNotFound ==
    (Ranked /\ ~Bracketed(RankReply, "[", "]")) =>
      /\ competitors = <<>>
      /\ agent_status["firecrawl"] = "complete"

C8_Witness ==
    /\ DiscoveryReturned
    /\ ~Bracketed(RankReply, "[", "]")
    /\ Positions(RankReply, "[") # {}
    /\ competitors = <<>>
    /\ agent_status["firecrawl"] = "complete"

\* C9: when the feature-matrix reply holds a "{...}" substring that does
\* not parse, feature_comparison's features is exactly the one placeholder
\* feature named "AI Features", and comparison_agent goes on to the
\* recommendation call and, when that returns, ends "complete".
C9_MatrixPlaceholder ==
    (MatrixAsked /\ Unparseable(MatrixReply, "{", "}")) =>
      /\ PyLen(Features(feature_comparison)) = 1
      /\ DictGet(Features(feature_comparison).items[1], "name", Str(""))
            = Str("s:AI Features")
      /\ error # "TypeError"
      /\ pc \in {"recommend", "agent_returned", "raised"}
      /\ pc = "raised" => error = "InferenceCallFailure" /\ Len(llm_log) = 1
      /\ pc = "agent_returned" =>
           /\ strategic_recommendations = llm_log[2]
           /\ agent_status["comparison"] = "complete"

C9_Witness ==
    /\ pc = "agent_returned"
    /\ Unparseable(MatrixReply, "{", "}")
    /\ PyLen(Features(feature_comparison)) = 1
    /\ agent_status["comparison"] = "complete"

\* C10: once the Analysis stage is over, a narrative (competitive_analysis)
\* without the heading "Competitor Weaknesses" has given
\* competitor_weaknesses exactly the two defaults, and one without "Market
\* Positioning & Gaps" has given market_gaps exactly its two defaults.
C10_MissingHeadingDefaults ==
    AnalysisOver =>
      /\ Positions(competitive_analysis, "Competitor Weaknesses") = {} =>
           competitor_weaknesses = << <<"Pricing complexity">>, <<"Limited features">> >>
      /\ Positions(competitive_analysis, "Market Positioning & Gaps") = {} =>
           market_gaps = << <<"Underserved market segments">>,
                            <<"Feature gaps in existing solutions">> >>

\* C11: the Analysis stage does not fail, and once it has run neither
\* market_gaps nor competitor_weaknesses is empty.
C11_SectionsNeverEmpty ==
    (invoked # <<>> /\ FailedStage = "analysis" /\ pc # "analyze") =>
      /\ pc # "raised"
      /\ market_gaps # <<>>
      /\ competitor_weaknesses # <<>>

\* The order the stages are to run in: Discovery, Analysis, Comparison.
StageOrder == <<"firecrawl", "analysis", "comparison">>

IsPrefix(s, t) == Len(s) <= Len(t) /\ SubSeq(t, 1, Len(s)) = s

\* C12: the stages are invoked in the order Discovery, Analysis, Comparison,
\* none twice, and every run that gets past Discovery, whatever competitors
\* holds, has invoked all three by the time it ends; a stage's status leaves
\* "pending", and a stage assigns a field, only when its predecessor is
\* "complete".
C12_StageSequencing ==
    /\ IsPrefix(invoked, StageOrder)
    /\ (PipelineOver /\ DiscoveryReturned) => invoked = StageOrder
    /\ \A k \in 2..3 :
         /\ agent_status[StageOrder[k]] # "pending" =>
              agent_status[StageOrder[k - 1]] = "complete"
         /\ \A w \in 1..Len(writes) :
              writes[w].stage = StageOrder[k] =>
                agent_status[StageOrder[k - 1]] = "complete"

\* One step of a stage's status: unchanged, entered or finished.
StatusStep(a, b) ==
    \/ a = b
    \/ a = "pending" /\ b = "working"
    \/ a = "working" /\ b = "complete"

\* C13: every stage's status starts "pending" and each step leaves it alone
\* or moves it pending -> working or working -> complete, never backward and
\* never past "working"; a run that got past Discovery has, by the time it
\* ends, made both moves for every stage.
C13_StatusForwardOnly ==
    /\ \A s \in Stages : agent_status[s] = "pending"
    /\ [][\A s \in Stages : StatusStep(agent_status[s], agent_status'[s])]_vars
    /\ []((PipelineOver /\ DiscoveryReturned) =>
            \A s \in Stages : agent_status[s] = "complete")

\* C14: at every step the old contents of messages are a prefix of the new
\* contents, so nothing is removed, overwritten or reordered and the length
\* never decreases.
C14_MessagesAppendOnly == [][IsPrefix(messages, messages')]_vars

C14_Witness ==
    /\ Len(stage_lens) = 1
    /\ Len(messages) > stage_lens[1]
    /\ agent_status["analysis"] = "working"
    /\ IsPrefix(<<"[Firecrawl Agent] Starting competitor discovery">>, messages)

\* The fields C15 speaks of, with the stage that owns each and the value
\* each has in the initial state.
OwnedFields == {"competitors", "competitive_analysis", "feature_comparison",
                "strategic_recommendations"}

Owner(field) ==
    CASE field = "competitors" -> "firecrawl"
      [] field = "competitive_analysis" -> "analysis"
      [] field = "feature_comparison" -> "comparison"
      [] field = "strategic_recommendations" -> "comparison"

FieldValue(field) ==
    CASE field = "competitors" -> competitors
      [] field = "competitive_analysis" -> competitive_analysis
      [] field = "feature_comparison" -> feature_comparison
      [] field = "strategic_recommendations" -> strategic_recommendations

InitialValue(field) ==
    IF field = "feature_comparison" THEN Obj(<<>>) ELSE <<>>

WritesOf(field) == { w \in 1..Len(writes) : writes[w].field = field }

\* C15: competitors, competitive_analysis, feature_comparison and
\* strategic_recommendations are each assigned at most once, only by
\* Discovery, Analysis, Comparison and Comparison respectively, exactly once
\* by the end of a run that got past Discovery; each holds its initial value
\* while its owner has not started, and changes value only in its owner's
\* single assignment.
C15_WrittenOnceByOwner ==
    /\ [](\A f \in OwnedFields :
            /\ Cardinality(WritesOf(f)) <= 1
            /\ \A w \in WritesOf(f) : writes[w].stage = Owner(f)
            /\ (PipelineOver /\ DiscoveryReturned) => Cardinality(WritesOf(f)) = 1
            /\ agent_status[Owner(f)] = "pending" => FieldValue(f) = InitialValue(f)
            /\ WritesOf(f) = {} => FieldValue(f) = InitialValue(f))
    /\ [][\A f \in OwnedFields :
            FieldValue(f)' # FieldValue(f) =>
              /\ agent_status[Owner(f)] = "working"
              /\ WritesOf(f) = {}
              /\ Cardinality(WritesOf(f)') = 1]_vars

InferenceFailed == error = "InferenceCallFailure"

\* C16: after a failed inference call the run has raised and returns no
\* final state; the stage it failed in is "working" and stays so, every
\* earlier stage is complete, no later stage has started or ever starts, and
\* the HTTP layer's response is a 500 whose detail is the error's text.
C16_InferenceFailurePropagates ==
    /\ [](InferenceFailed =>
            /\ pc = "raised"
            /\ invoked # <<>>
            /\ agent_status[FailedStage] = "working"
            /\ \A s \in Stages :
                 /\ agent_status[s] = "complete" =>
                      \E k \in 1..(Len(invoked) - 1) : invoked[k] = s
                 /\ agent_status[s] = "pending" <=>
                      ~\E k \in 1..Len(invoked) : invoked[k] = s
            /\ response = [status |-> 500, detail |-> "InferenceCallFailure",
                           body |-> <<>>])
    /\ [][InferenceFailed =>
            UNCHANGED <<pc, error, invoked, agent_status, state_fields, response>>]_vars

C16_Witness ==
    /\ InferenceFailed
    /\ FailedStage = "firecrawl"
    /\ Len(llm_log) = 1
    /\ raw_competitors # <<>>
    /\ agent_status = [s \in Stages |->
                         IF s = "firecrawl" THEN "working" ELSE "pending"]
    /\ response.status = 500
    /\ response.detail = "InferenceCallFailure"

\* run_competitor_analysis has been called.
PipelineCalled == pc \notin {"request", "rejected", "import_failed"}

\* C17: for a request whose user_input is absent or the empty string,
\* run_competitor_analysis is never called, at the HTTP endpoint and at the
\* CLI alike.
C17_EmptyInputRejected ==
    user_input \in {Absent[1], "s:"} => ~PipelineCalled

\* C18: in description mode, with an inference double that answers every
\* call with a valid payload and a search double that returns 3 results per
\* query, the run returns, and the final state has exactly 5 competitors, a
\* non-empty competitive_analysis, exactly 5 market_gaps and 5
\* competitor_weaknesses, a features list in feature_comparison and a
\* non-empty strategic_recommendations.
C18_ScenarioFinalState ==
    (stub = "scenario" /\ PipelineOver) =>
      /\ analysis_mode = "description"
      /\ pc = "returned"
      /\ Len(competitors) = 5
      /\ \A k \in 1..Len(competitors) : ValidCompetitor(competitors[k])
      /\ competitive_analysis # <<>>
      /\ Len(market_gaps) = 5
      /\ Len(competitor_weaknesses) = 5
      /\ Features(feature_comparison).t = "arr"
      /\ strategic_recommendations # <<>>

\* C19: once the Analysis stage is over, the narrative has been asked for
\* (the third inference call) and stored in competitive_analysis, and, with
\* the heading present in it, market_gaps and competitor_weaknesses hold at
\* least one and at most 5 entries, none of them empty.
C19_StoredEntriesLong ==
    AnalysisOver =>
      /\ Len(llm_log) = 3
      /\ competitive_analysis = llm_log[3]
      /\ Positions(competitive_analysis, "Market Positioning & Gaps") # {} =>
           /\ Len(market_gaps) \in 1..5
           /\ \A k \in 1..Len(market_gaps) : market_gaps[k] # <<>>
      /\ Positions(competitive_analysis, "Competitor Weaknesses") # {} =>
           /\ Len(competitor_weaknesses) \in 1..5
           /\ \A k \in 1..Len(competitor_weaknesses) :
                competitor_weaknesses[k] # <<>>

\* The results collected so far, as <<query index, result index>> pairs.
Collected == [k \in 1..Len(all_competitors) |->
                <<all_competitors[k].name[2], all_competitors[k].name[3]>>]

\* C20: the k-th search is the search for the k-th planned query, the
\* searches number at most min(3, n) and exactly that once the loop is left,
\* a search has finished whenever the next is chosen, and the collected
\* results stand grouped by query in query order, each group in the order
\* the search returned it; raw_competitors is that list.
C20_SearchOrder ==
    /\ \A k \in 1..Len(search_log) : search_log[k].query[1] = queries[k]
    /\ Len(search_log) <= Min(SearchLimit, Len(queries))
    /\ pc = "search" => i = Len(search_log)
    /\ Ranked => Len(search_log) = Min(SearchLimit, Len(queries))
    /\ \A a, b \in 1..Len(Collected) :
         a < b => \/ Collected[a][1] < Collected[b][1]
                  \/ /\ Collected[a][1] = Collected[b][1]
                     /\ Collected[a][2] < Collected[b][2]
    /\ \A k \in 1..Len(search_log) :
         { Collected[a][2] : a \in { c \in 1..Len(Collected) : Collected[c][1] = k } }
           = 1..search_log[k].results
    /\ Len(llm_log) >= 1 /\ pc \notin {"search", "raised"} =>
         raw_competitors = all_competitors

C20_Witness ==
    /\ pc = "analysis"
    /\ Len(queries) = 4
    /\ Len(raw_competitors) = 9
    /\ Collected[4] = <<2, 1>>
    /\ Collected[9] = <<3, 3>>

\* C21: when the feature-matrix reply holds no "{...}" substring,
\* feature_comparison is exactly a matrix with an empty features list, not
\* the placeholder; the length message is written without error,
\* comparison_agent goes on to the recommendation call and, when that
\* returns, ends "complete".
C21_MatrixNotFound ==
    (MatrixAsked /\ ~Bracketed(MatrixReply, "{", "}")) =>
      /\ feature_comparison = Obj(<< [k |-> "features", v |-> Arr(<<>>)] >>)
      /\ feature_comparison # PlaceholderComparison
      /\ PyLen(Features(feature_comparison)) = 0
      /\ error # "TypeError"
      /\ pc \in {"recommend", "agent_returned", "raised"}
      /\ pc = "raised" => error = "InferenceCallFailure" /\ Len(llm_log) = 1
      /\ pc = "agent_returned" =>
           /\ strategic_recommendations = llm_log[2]
           /\ agent_status["comparison"] = "complete"

C21_Witness ==
    /\ pc = "agent_returned"
    /\ ~Bracketed(MatrixReply, "{", "}")
    /\ Features(feature_comparison) = Arr(<<>>)
    /\ strategic_recommendations # <<>>
    /\ agent_status["comparison"] = "complete"

\* Discovery has finished: its status is "complete", or a later stage has
\* been invoked.
DiscoveryDone == agent_status["firecrawl"] = "complete" \/ Len(invoked) > 1

\* C22: no step changes user_input or analysis_mode, and once Discovery has
\* finished no step changes competitors, raw_competitors or search_queries.
C22_LaterStagesFrame ==
    [][/\ user_input' = user_input
       /\ analysis_mode' = analysis_mode
       /\ DiscoveryDone =>
            /\ competitors' = competitors
            /\ raw_competitors' = raw_competitors
            /\ search_queries' = search_queries]_vars

C22_Witness ==
    /\ AnalysisOver
    /\ competitors # <<>>
    /\ raw_competitors # <<>>
    /\ search_queries # <<>>
    /\ user_input = "s:biz"

\* C23: messages never holds an entry twice, and a run that got past
\* Discovery ends by returning with exactly the 9 entries the stages
\* appended (4, 2 and 3).
C23_NoDuplicateMessages ==
    /\ \A a, b \in 1..Len(messages) : a # b => messages[a] # messages[b]
    /\ (PipelineOver /\ DiscoveryReturned) =>
         /\ pc = "returned"
         /\ Len(messages) = 9

\* C24: an accepted HTTP request whose run got past Discovery is, once the
\* run is over, answered 200 by the analyze endpoint, with the declared
\* members of each of the state's competitors in the body, whatever array
\* the ranking step parsed.
C24_CompletedRunAnswered200 ==
    (entry = "http" /\ PipelineOver /\ DiscoveryReturned) =>
      /\ response.status = 200
      /\ response.body[1].competitors =
           [k \in 1..Len(competitors) |-> CompetitorInfo(competitors[k])]
====
